---- MODULE Spec2Model ----
(***************************************************************************)
(* numba/hsa/compiler.py: the configurable HSA kernel (HSAKernelBase:      *)
(* configure, bracket notation) and the launch of an HSAKernel (bind,      *)
(* __call__, _prepare_arguments, _unbox).                                  *)
(*                                                                         *)
(* Three specifications share the variables:                               *)
(*   SpecConfig  a program that holds one kernel object and calls          *)
(*               configure / [] on it, keeping or dropping each result;    *)
(*   Spec        one launch of a configured kernel, step by step,          *)
(*               with the driver free to fail wherever it can raise;       *)
(*   SpecConc    NCalls launches of one kernel, their steps interleaved.   *)
(***************************************************************************)
EXTENDS Integers, Sequences, FiniteSets, TLC

\* ------------------------------------------------------------- bounds
\* Longest size sequence a caller passes to configure / [].
MaxRank == 2
\* Longest formal signature and longest argument list of a launch.
MaxArgs == 2

\* Elements of the size sequences callers pass.
Vals == {1, 2}
\* Values of the stream parameter: None or a stream handle.
Streams == {"None", "s1"}

\* HSAKernel.INJECTED_NARG
INJECTED_NARG == 6

\* ------------------------------------------------------ python values
\* Python's None for a size attribute, and a tuple of integers.
NoneT == [none |-> TRUE, tup |-> <<>>]
Tuple(s) == [none |-> FALSE, tup |-> s]

\* A size argument as the caller passes it: None, a bare scalar, or a
\* tuple/list of integers.
NoneArg == [tag |-> "none", n |-> 0, items |-> <<>>]
Scalar(x) == [tag |-> "scalar", n |-> x, items |-> <<>>]
List(s) == [tag |-> "seq", n |-> 0, items |-> s]

SeqsUpTo(S, n) == UNION {[1..k -> S] : k \in 0..n}
SizeSeqs == SeqsUpTo(Vals, MaxRank)
SizeArgs == {Scalar(x) : x \in Vals} \cup {List(s) : s \in SizeSeqs}
OptSizeArgs == SizeArgs \cup {NoneArg}

Max(a, b) == IF a >= b THEN a ELSE b
Min(a, b) == IF a <= b THEN a ELSE b

\* ------------------------------------------------- HSAKernelBase
\* _ensure_list: a fresh list holding val, or a fresh list copy of it.
_ensure_list(val) ==
    IF val.tag = "scalar" THEN <<val.n>> ELSE val.items

\* Faulty variant of _ensure_list_is_new: a list is returned as it is.
_ensure_list_same(val) == val.tag = "scalar"

\* Whether the list _ensure_list returns is a new object: both [val] and
\* list(val) are.
_ensure_list_is_new(val) == TRUE

\* Faulty variants of _ensure_size_or_append: the 1s inserted on the left,
\* and no padding at all.
pad_left(val, size) ==
    IF size > Len(val)
    THEN [i \in 1..(size - Len(val)) |-> 1] \o val
    ELSE val

pad_nothing(val, size) == val

\* _ensure_size_or_append: the list after the in-place appends of 1.
_ensure_size_or_append(val, size) ==
    IF size > Len(val)
    THEN val \o [i \in 1..(size - Len(val)) |-> 1]
    ELSE val

\* The caller's argument val after the call: _ensure_size_or_append works in
\* place on the list _ensure_list(val) returned, which the appends have
\* brought to size; the caller sees them when that list is val itself.
after_call(val, size) ==
    IF val.tag = "none" \/ _ensure_list_is_new(val)
    THEN val
    ELSE List(_ensure_size_or_append(_ensure_list(val), size))

\* HSAKernelBase.__init__: the attributes of a new kernel object.
HSAKernelBase_init ==
    [global_size |-> <<1>>, local_size |-> NoneT, stream |-> "None"]

\* Faulty variant of copy: no copy is made, the clone is self.
copy_alias(h, id) == [heap |-> h, id |-> id]

\* The object heap is a sequence of attribute records; an object is its
\* index.  copy.copy(self): a new object with the attributes of self.
copy(h, id) == [heap |-> Append(h, h[id]), id |-> Len(h) + 1]

\* Faulty variant of configure: a local size or a stream that is not given
\* is taken over from self.
configure_keep(h, id, global_size, local_size, stream_) ==
    LET gl0 == _ensure_list(global_size)
        present == local_size.tag # "none"
        ll0 == IF present THEN _ensure_list(local_size) ELSE <<>>
        size == Max(Len(gl0), Len(ll0))
        gl == IF present THEN _ensure_size_or_append(gl0, size) ELSE gl0
        ll == IF present THEN _ensure_size_or_append(ll0, size) ELSE ll0
        c == copy(h, id)
        truthy == present /\ Len(ll) > 0
    IN  [heap |-> [c.heap EXCEPT ![c.id] =
                      [global_size |-> gl,
                       local_size |-> IF truthy THEN Tuple(ll)
                                      ELSE h[id].local_size,
                       stream |-> IF stream_ = "None" THEN h[id].stream
                                  ELSE stream_]],
         ret |-> c.id]

\* HSAKernelBase.configure on object id of heap h, with the lists already
\* coerced by the caller's arguments: returns the heap after the call and
\* the returned object.
configure(h, id, global_size, local_size, stream_) ==
    LET gl0 == _ensure_list(global_size)
        present == local_size.tag # "none"
        ll0 == IF present THEN _ensure_list(local_size) ELSE <<>>
        size == Max(Len(gl0), Len(ll0))
        gl == IF present THEN _ensure_size_or_append(gl0, size) ELSE gl0
        ll == IF present THEN _ensure_size_or_append(ll0, size) ELSE ll0
        c == copy(h, id)
        truthy == present /\ Len(ll) > 0
    IN  [heap |-> [c.heap EXCEPT ![c.id] =
                      [global_size |-> gl,
                       local_size |-> IF truthy THEN Tuple(ll) ELSE NoneT,
                       stream |-> stream_]],
         ret |-> c.id]

\* Faulty variant of the global-size computation: a sum for the product.
zip_add(griddim, blockdim) ==
    [i \in 1..Min(Len(griddim), Len(blockdim)) |-> griddim[i] + blockdim[i]]

\* gs = [g * l for g, l in zip(griddim, blockdim)]
zip_mul(griddim, blockdim) ==
    [i \in 1..Min(Len(griddim), Len(blockdim)) |-> griddim[i] * blockdim[i]]

\* HSAKernelBase.__getitem__ with args = (a0, a1) + rest; rest is args[2:],
\* empty or one stream.
getitem(h, id, a0, a1, rest) ==
    LET griddim0 == _ensure_list(a0)
        blockdim0 == _ensure_list(a1)
        size == Max(Len(griddim0), Len(blockdim0))
        griddim == _ensure_size_or_append(griddim0, size)
        blockdim == _ensure_size_or_append(blockdim0, size)
        gs == zip_mul(griddim, blockdim)
    IN  configure(h, id, List(gs), List(blockdim),
                  IF Len(rest) = 0 THEN "None" ELSE rest[1])

\* ---------------------------------------------------- launch values
\* Formal argument types: an array type of a declared rank, or a scalar
\* numeric type.
ArrayType(d) == [kind |-> "Array", ndim |-> d]
ScalarType(name) == [kind |-> name, ndim |-> 0]
\* No type: the argument of an exception raised without one.
NoType == [kind |-> "None", ndim |-> 0]

\* The tables of the scalar numeric types and their ctypes.
INTEGER_TYPE_MAP ==
    [int8 |-> "c_int8", int16 |-> "c_int16", int32 |-> "c_int32",
     int64 |-> "c_int64", uint8 |-> "c_uint8", uint16 |-> "c_uint16",
     uint32 |-> "c_uint32", uint64 |-> "c_uint64"]
REAL_TYPE_MAP == [float32 |-> "c_float", float64 |-> "c_double"]
COMPLEX_TYPE_MAP == [complex64 |-> "Complex", complex128 |-> "DoubleComplex"]
ScalarNumericKinds ==
    DOMAIN INTEGER_TYPE_MAP \cup DOMAIN REAL_TYPE_MAP
    \cup DOMAIN COMPLEX_TYPE_MAP

\* The types signatures are built from: an array type, a scalar numeric type
\* and a type that is neither.
FormalTypes == {ArrayType(1), ScalarType("int32"), ScalarType("pyobject")}
\* Argument values: arrays, with their rank and the address of their data
\* (a value without ndim / ctypes passed for an array type is left out).
ArgValues == {[ndim |-> 1, data |-> "A"], [ndim |-> 2, data |-> "B"]}

\* Signatures: the sequences over FormalTypes, and one signature of a single
\* argument for every scalar numeric type.
Signatures ==
    SeqsUpTo(FormalTypes, MaxArgs)
    \cup {<<ScalarType(k)>> : k \in ScalarNumericKinds}
ArgLists == SeqsUpTo(ArgValues, MaxArgs)

\* agent.regions, each by its supports_kernargs flag.
RegionLists == {<<>>, <<FALSE>>, <<TRUE>>, <<FALSE, TRUE, TRUE>>}

\* What freshly allocated kernarg memory may hold in every slot: the code
\* never reads a slot it did not write, the device does.
UninitCells == {0, 1}

\* The queues of the context: the default queue and one per stream handle.
Queues == {"default"} \cup (Streams \ {"None"})

\* The configurations a launch is invoked on: the new kernel, and what
\* configure / [] return for it.
LaunchSizeArgs == {Scalar(2), List(<<1, 2>>)}
LaunchConfigs ==
    {HSAKernelBase_init}
    \cup {configure(<<HSAKernelBase_init>>, 1, g, l, s).heap[2] :
            g \in LaunchSizeArgs, l \in LaunchSizeArgs \cup {NoneArg},
            s \in Streams}
    \cup {getitem(<<HSAKernelBase_init>>, 1, g, b, <<s>>).heap[2] :
            g \in LaunchSizeArgs, b \in LaunchSizeArgs, s \in Streams}

\* _unbox(val, ty) for the n-th descriptor built in the call: the native
\* cell and the keep-alive payload, or the exception raised.
_unbox(val, ty, n) ==
    IF ty.kind = "Array"
    THEN [exc |-> "None",
          exc_arg |-> NoType,
          cval |-> n,
          keepalive |-> [parent |-> "None", data |-> val.data,
                         ndim |-> val.ndim]]
    ELSE [exc |-> "NotImplementedError",
          exc_arg |-> ty,
          cval |-> 0,
          keepalive |-> [parent |-> "None", data |-> "None", ndim |-> 0]]

\* list(_prepare_arguments(args, argtys)): _unbox over zip(args, argtys) in
\* order, stopping at the first exception.
RECURSIVE prepare_from(_, _, _, _)
prepare_from(args_, argtys, i, acc) ==
    IF i > Min(Len(args_), Len(argtys))
    THEN [exc |-> "None", exc_arg |-> NoType, unboxed |-> acc]
    ELSE LET u == _unbox(args_[i], argtys[i], i)
         IN  IF u.exc # "None"
             THEN [exc |-> u.exc, exc_arg |-> u.exc_arg, unboxed |-> acc]
             ELSE prepare_from(args_, argtys, i + 1,
                               Append(acc, [cval |-> u.cval,
                                            keepalive |-> u.keepalive]))

_prepare_arguments(args_, argtys) == prepare_from(args_, argtys, 1, <<>>)

\* Faulty variant of kernarg_region_of: the last supporting region, [-1].
last_region_of(rs) ==
    LET ok == {i \in 1..Len(rs) : rs[i]}
    IN  IF ok = {} THEN 0 ELSE CHOOSE i \in ok : \A j \in ok : j <= i

\* kernarg_region = [r for r in agent.regions if r.supports_kernargs][0]:
\* the index of the region, 0 when the list is empty (IndexError).
kernarg_region_of(rs) ==
    LET ok == {i \in 1..Len(rs) : rs[i]}
    IN  IF ok = {} THEN 0 ELSE CHOOSE i \in ok : \A j \in ok : i <= j

\* kernargs[i] = 0 for i in range(INJECTED_NARG)
zero_injected(buf) ==
    [i \in 1..Len(buf) |-> IF i <= INJECTED_NARG THEN 0 ELSE buf[i]]

\* kernargs[INJECTED_NARG + i] = cval for i, (cval, keepalive) in
\* enumerate(unboxed)
insert_arguments(buf, ub) ==
    [i \in 1..Len(buf) |->
        IF i > INJECTED_NARG /\ i - INJECTED_NARG <= Len(ub)
        THEN ub[i - INJECTED_NARG].cval
        ELSE buf[i]]

\* qq = ctx.default_queue
dispatch_queue(self_) == "default"

\* -------------------------------------------------------------- state
VARIABLES
    caller,     \* the caller's two size arguments, as they are after the call
    held,       \* the descriptors the frame of the call keeps alive, by address
    calls,      \* per concurrent launch call on one kernel, its frame
    buffers,    \* the buffers allocated from the kernarg region, in order
    dispatched, \* the dispatches the concurrent calls have submitted
    kernarg_region, \* index of the region bind() allocates from, 0: none
    exc_arg,    \* the argument of the exception raised
    heap,       \* the kernel objects: heap[1] is the one the program holds
    ret,        \* the object the last configure / [] returned, 0 if none
    last,       \* the last call on heap[1]: its operation and arguments
    argument_types,  \* self.argument_types
    regions,    \* agent.regions
    pc,         \* where the launch call is
    args,       \* the argument values of the call
    kernargs,   \* the argument buffer, <<>> while there is none
    unboxed,    \* the marshaled (cval, keepalive) pairs
    exc,        \* the exception the call raised, "None" if none
    nalloc,     \* kernarg_region.allocate calls that returned a buffer
    nfree,      \* kernarg_region.free calls
    queues,     \* per queue, the dispatches submitted to it
    steps,      \* the steps of the call, in the order they started
    written     \* the buffer slots the call has written

confvars == <<heap, ret, last, caller>>
callvars == <<argument_types, regions, pc, args, kernargs, unboxed, exc,
              nalloc, nfree, queues, steps, written, exc_arg, kernarg_region, held>>
concvars == <<calls, buffers, dispatched>>
vars == <<confvars, callvars, concvars>>

NoCall == [op |-> "none", a0 |-> NoneArg, a1 |-> NoneArg, rest |-> <<>>]

\* No size arguments in a caller's hands.
NoCaller == [a0 |-> NoneArg, a1 |-> NoneArg]

\* No launch under way.
NoLaunch ==
    /\ pc = "idle"
    /\ args = <<>>
    /\ kernargs = <<>>
    /\ unboxed = <<>>
    /\ exc = "None"
    /\ nalloc = 0
    /\ nfree = 0
    /\ queues = [q \in Queues |-> <<>>]
    /\ steps = <<>>
    /\ held = {}
    /\ kernarg_region = 0
    /\ exc_arg = NoType
    /\ written = {}

\* No concurrent launch calls.
NoConc ==
    /\ calls = <<>>
    /\ buffers = <<>>
    /\ dispatched = {}

\* A new kernel without formal arguments, on an agent with one region.
InitConfig ==
    /\ heap = <<HSAKernelBase_init>>
    /\ ret = 0
    /\ last = NoCall
    /\ caller = NoCaller
    /\ argument_types = <<>>
    /\ regions = <<TRUE>>
    /\ NoLaunch
    /\ NoConc

\* r = k.configure(global_size, local_size, stream)
Configure ==
    /\ ret = 0
    /\ \E g \in SizeArgs, l \in OptSizeArgs, s \in Streams :
         LET out == configure(heap, 1, g, l, s)
         IN  /\ heap' = out.heap
             /\ ret' = out.ret
             /\ last' = [op |-> "configure", a0 |-> g, a1 |-> l, rest |-> <<s>>]
             /\ LET size == IF l.tag = "none" THEN 0
                            ELSE Max(Len(_ensure_list(g)),
                                     Len(_ensure_list(l)))
                IN  caller' = [a0 |-> after_call(g, size),
                               a1 |-> after_call(l, size)]
    /\ UNCHANGED <<callvars, concvars>>

\* r = k[griddim, blockdim] or k[griddim, blockdim, stream]
GetItem ==
    /\ ret = 0
    /\ \E g \in SizeArgs, b \in SizeArgs,
          rest \in {<<>>} \cup {<<s>> : s \in Streams} :
         LET out == getitem(heap, 1, g, b, rest)
         IN  /\ heap' = out.heap
             /\ ret' = out.ret
             /\ last' = [op |-> "getitem", a0 |-> g, a1 |-> b, rest |-> rest]
             /\ LET size == Max(Len(_ensure_list(g)), Len(_ensure_list(b)))
                IN  caller' = [a0 |-> after_call(g, size),
                               a1 |-> after_call(b, size)]
    /\ UNCHANGED <<callvars, concvars>>

\* k = r: the program goes on with the returned object.
Adopt ==
    /\ ret # 0
    /\ heap' = <<heap[ret]>>
    /\ ret' = 0
    /\ last' = NoCall
    /\ caller' = NoCaller
    /\ UNCHANGED <<callvars, concvars>>

\* The program drops the returned object and keeps k.
Drop ==
    /\ ret # 0
    /\ heap' = <<heap[1]>>
    /\ ret' = 0
    /\ last' = NoCall
    /\ caller' = NoCaller
    /\ UNCHANGED <<callvars, concvars>>

NextConfig == Configure \/ GetItem \/ Adopt \/ Drop

SpecConfig == InitConfig /\ [][NextConfig]_vars

\* ------------------------------------------------------------- launch
\* A configured kernel of some signature, on an agent with some regions.
Init ==
    /\ heap \in {<<c>> : c \in LaunchConfigs}
    /\ ret = 0
    /\ last = NoCall
    /\ caller = NoCaller
    /\ argument_types \in Signatures
    /\ regions \in RegionLists
    /\ NoLaunch
    /\ NoConc

\* k(*args): HSAKernel.__call__ is entered.
Call ==
    /\ pc = "idle"
    /\ \E a \in ArgLists : args' = a
    /\ pc' = "resolve"
    /\ UNCHANGED <<confvars, concvars, argument_types, regions, kernargs, unboxed, exc,
                   nalloc, nfree, queues, steps, written, exc_arg, kernarg_region, held>>

\* The call ends with exception e.
Raise(e) ==
    /\ exc' = e
    /\ pc' = "raised"

\* bind: brig_module.find_symbol_offset(symbol)
Resolve ==
    /\ pc = "resolve"
    /\ steps' = Append(steps, "Resolve")
    /\ \/ pc' = "finalize" /\ UNCHANGED exc
       \/ Raise("HsaDriverError")
    /\ UNCHANGED <<confvars, concvars, argument_types, regions, args, kernargs, unboxed,
                   nalloc, nfree, queues, written, exc_arg, kernarg_region, held>>

\* bind: create_program, add_module, program.finalize
Finalize ==
    /\ pc = "finalize"
    /\ steps' = Append(steps, "Finalize")
    /\ \/ pc' = "allocate" /\ UNCHANGED exc
       \/ Raise("HsaDriverError")
    /\ UNCHANGED <<confvars, concvars, argument_types, regions, args, kernargs, unboxed,
                   nalloc, nfree, queues, written, exc_arg, kernarg_region, held>>

\* bind: the kernarg region and kernarg_region.allocate
Allocate ==
    /\ pc = "allocate"
    /\ steps' = Append(steps, "Allocate")
    /\ kernarg_region' = kernarg_region_of(regions)
    /\ \/ /\ kernarg_region_of(regions) = 0
          /\ Raise("IndexError")
          /\ UNCHANGED <<kernargs, nalloc>>
       \/ /\ kernarg_region_of(regions) # 0
          /\ \E fill \in UninitCells :
               kernargs' = [i \in 1..(INJECTED_NARG + Len(argument_types))
                              |-> fill]
          /\ nalloc' = nalloc + 1
          /\ pc' = "marshal"
          /\ UNCHANGED exc
       \/ /\ kernarg_region_of(regions) # 0
          /\ Raise("HsaDriverError")
          /\ UNCHANGED <<kernargs, nalloc>>
    /\ UNCHANGED <<confvars, concvars, argument_types, regions, args, unboxed, nfree,
                   queues, written, exc_arg, held>>

\* Faulty variant of keepalives: only the cells are kept.
no_keepalives(ub) == {}

\* The payloads the list unboxed refers to: the descriptor of each pair,
\* named by the address that is its cell.
keepalives(ub) == {ub[i].cval : i \in 1..Len(ub)}

\* Faulty variant of Marshal: the generator is not run to its end first, so
\* the injected slots are already zeroed when an argument fails to marshal.
MarshalLazily ==
    /\ pc = "marshal"
    /\ steps' = Append(steps, "Marshal")
    /\ kernargs' = zero_injected(kernargs)
    /\ written' = written \cup (1..INJECTED_NARG)
    /\ LET r == _prepare_arguments(args, argument_types)
       IN  /\ unboxed' = r.unboxed
           /\ exc_arg' = r.exc_arg
           /\ held' = IF r.exc = "None" THEN keepalives(r.unboxed) ELSE {}
           /\ IF r.exc = "None"
              THEN pc' = "zero" /\ UNCHANGED exc
              ELSE Raise(r.exc)
    /\ UNCHANGED <<confvars, concvars, argument_types, regions, args,
                   nalloc, nfree, queues, kernarg_region>>

\* unboxed = list(_prepare_arguments(args, self.argument_types)); when
\* _unbox raises, the list under construction is dropped.
Marshal ==
    /\ pc = "marshal"
    /\ steps' = Append(steps, "Marshal")
    /\ LET r == _prepare_arguments(args, argument_types)
       IN  /\ unboxed' = r.unboxed
           /\ exc_arg' = r.exc_arg
           /\ held' = IF r.exc = "None" THEN keepalives(r.unboxed) ELSE {}
           /\ IF r.exc = "None"
              THEN pc' = "zero" /\ UNCHANGED exc
              ELSE Raise(r.exc)
    /\ UNCHANGED <<confvars, concvars, argument_types, regions, args, kernargs,
                   nalloc, nfree, queues, written, kernarg_region>>

\* The loop writing 0 into the injected slots.
Zero ==
    /\ pc = "zero"
    /\ kernargs' = zero_injected(kernargs)
    /\ written' = written \cup (1..INJECTED_NARG)
    /\ pc' = "insert"
    /\ UNCHANGED <<confvars, concvars, argument_types, regions, args, unboxed, exc,
                   nalloc, nfree, queues, steps, exc_arg, kernarg_region, held>>

\* Faulty variant of the insertion loop's place in the call: the buffer is
\* freed right after it is filled, before the dispatch.
InsertThenFree ==
    /\ pc = "insert"
    /\ kernargs' = insert_arguments(kernargs, unboxed)
    /\ written' = written \cup {INJECTED_NARG + i : i \in 1..Len(unboxed)}
    /\ steps' = Append(steps, "Release")
    /\ nfree' = nfree + 1
    /\ pc' = "dispatch"
    /\ UNCHANGED <<confvars, concvars, argument_types, regions, args, unboxed, exc,
                   nalloc, queues, exc_arg, kernarg_region, held>>

\* The loop writing the marshaled cells after the injected slots.
Insert ==
    /\ pc = "insert"
    /\ kernargs' = insert_arguments(kernargs, unboxed)
    /\ written' = written \cup {INJECTED_NARG + i : i \in 1..Len(unboxed)}
    /\ pc' = "dispatch"
    /\ UNCHANGED <<confvars, concvars, argument_types, regions, args, unboxed, exc,
                   nalloc, nfree, queues, steps, exc_arg, kernarg_region, held>>

\* qq.dispatch(code_desc, kernargs, workgroup_size=..., grid_size=...)
Dispatch ==
    /\ pc = "dispatch"
    /\ steps' = Append(steps, "Dispatch")
    /\ \/ /\ queues' = [queues EXCEPT ![dispatch_queue(heap[1])] =
                          Append(@, [kernargs |-> kernargs,
                                     workgroup_size |-> heap[1].local_size,
                                     grid_size |-> heap[1].global_size])]
          /\ pc' = "free"
          /\ UNCHANGED exc
       \/ /\ Raise("HsaDriverError")
          /\ UNCHANGED queues
    /\ UNCHANGED <<confvars, concvars, argument_types, regions, args, kernargs, unboxed,
                   nalloc, nfree, written, exc_arg, kernarg_region, held>>

\* kernarg_region.free(kernargs), and the call returns.
Free ==
    /\ pc = "free"
    /\ steps' = Append(steps, "Release")
    /\ nfree' = nfree + 1
    /\ pc' = "freed"
    /\ UNCHANGED <<confvars, concvars, argument_types, regions, args, kernargs, unboxed,
                   exc, nalloc, queues, written, exc_arg, kernarg_region, held>>

\* __call__ returns: its frame goes, and with it the list unboxed.
Return ==
    /\ pc = "freed"
    /\ pc' = "returned"
    /\ held' = {}
    /\ UNCHANGED <<confvars, concvars, argument_types, regions, args, kernargs,
                   unboxed, exc, nalloc, nfree, queues, steps, written,
                   exc_arg, kernarg_region>>

\* The exception has left __call__: its frame goes, and with it the list
\* unboxed.
Unwind ==
    /\ pc = "raised"
    /\ held # {}
    /\ held' = {}
    /\ UNCHANGED <<confvars, concvars, argument_types, regions, pc, args,
                   kernargs, unboxed, exc, nalloc, nfree, queues, steps,
                   written, exc_arg, kernarg_region>>

Next ==
    \/ Call \/ Resolve \/ Finalize \/ Allocate \/ Marshal
    \/ Zero \/ Insert \/ Dispatch \/ Free \/ Return \/ Unwind

Spec == Init /\ [][Next]_vars

\* ------------------------------------------------- concurrent launches
\* The number of launch calls made concurrently on one kernel.
NCalls == 2

Calls == 1..NCalls

\* The signatures and argument lists of the concurrent launches.
ConcSignatures == {<<ArrayType(1)>>, <<ScalarType("int32")>>}
ConcArgLists == {<<>>, <<[ndim |-> 1, data |-> "A"]>>}

\* The frame of a call of __call__ that has not been entered.
NoFrame ==
    [pc |-> "idle", args |-> <<>>, code_desc |-> 0, nfinalize |-> 0,
     kernargs |-> 0, unboxed |-> <<>>, exc |-> "None"]

\* Faulty variant of kernargs_of: the buffer is kept on the kernel object,
\* where every call finds the one allocated last.
shared_kernargs(c) == Len(buffers)

\* kernargs, the local variable of call c that bind() has filled: the index
\* of its buffer in the region.
kernargs_of(c) == calls[c].kernargs

\* One kernel of some signature is about to be launched by NCalls calls.
InitConc ==
    /\ heap \in {<<cf>> : cf \in LaunchConfigs}
    /\ ret = 0
    /\ last = NoCall
    /\ caller = NoCaller
    /\ argument_types \in ConcSignatures
    /\ regions = <<TRUE>>
    /\ NoLaunch
    /\ calls = [c \in Calls |-> NoFrame]
    /\ buffers = <<>>
    /\ dispatched = {}

\* Call c moves on: its frame becomes f.
Step(c, f) == calls' = [calls EXCEPT ![c] = f]

\* Call c raises e.
RaiseIn(c, e) == Step(c, [calls[c] EXCEPT !.pc = "raised", !.exc = e])

\* k(*args) is entered by call c.
ConcCall(c) ==
    /\ calls[c].pc = "idle"
    /\ \E a \in ConcArgLists :
         Step(c, [calls[c] EXCEPT !.pc = "resolve", !.args = a])
    /\ UNCHANGED <<confvars, callvars, buffers, dispatched>>

\* symbol_offset = brig_module.find_symbol_offset(symbol), in call c
ConcResolve(c) ==
    /\ calls[c].pc = "resolve"
    /\ \/ Step(c, [calls[c] EXCEPT !.pc = "finalize"])
       \/ RaiseIn(c, "HsaDriverError")
    /\ UNCHANGED <<confvars, callvars, buffers, dispatched>>

\* code_desc = program.finalize(agent, module, symbol_offset), in call c:
\* a program of its own, created three lines above.
ConcFinalize(c) ==
    /\ calls[c].pc = "finalize"
    /\ \/ Step(c, [calls[c] EXCEPT !.pc = "allocate",
                                   !.code_desc = c,
                                   !.nfinalize = @ + 1])
       \/ RaiseIn(c, "HsaDriverError")
    /\ UNCHANGED <<confvars, callvars, buffers, dispatched>>

\* kernargs = kernarg_region.allocate(kernarg_types), in call c
ConcAllocate(c) ==
    /\ calls[c].pc = "allocate"
    /\ \/ /\ kernarg_region_of(regions) # 0
          /\ buffers' = Append(buffers,
                 [owner |-> c, written |-> {}, writers |-> {},
                  dispatchers |-> {}, freed |-> <<>>])
          /\ Step(c, [calls[c] EXCEPT !.pc = "marshal",
                                      !.kernargs = Len(buffers) + 1])
       \/ /\ RaiseIn(c, "HsaDriverError")
          /\ UNCHANGED buffers
    /\ UNCHANGED <<confvars, callvars, dispatched>>

\* unboxed = list(_prepare_arguments(args, self.argument_types)), in call c
ConcMarshal(c) ==
    /\ calls[c].pc = "marshal"
    /\ LET r == _prepare_arguments(calls[c].args, argument_types)
       IN  Step(c, [calls[c] EXCEPT
                      !.pc = IF r.exc = "None" THEN "zero" ELSE "raised",
                      !.exc = r.exc,
                      !.unboxed = r.unboxed])
    /\ UNCHANGED <<confvars, callvars, buffers, dispatched>>

\* Call c writes the slots ss of the buffer its kernargs names.
WriteSlots(c, ss) ==
    buffers' = [buffers EXCEPT ![kernargs_of(c)] =
                   [@ EXCEPT !.written = @ \cup ss,
                             !.writers = @ \cup {c}]]

\* kernargs[i] = 0 for i in range(INJECTED_NARG), in call c
ConcZero(c) ==
    /\ calls[c].pc = "zero"
    /\ WriteSlots(c, 1..INJECTED_NARG)
    /\ Step(c, [calls[c] EXCEPT !.pc = "insert"])
    /\ UNCHANGED <<confvars, callvars, dispatched>>

\* kernargs[INJECTED_NARG + i] = cval for each unboxed pair, in call c
ConcInsert(c) ==
    /\ calls[c].pc = "insert"
    /\ WriteSlots(c, {INJECTED_NARG + i : i \in 1..Len(calls[c].unboxed)})
    /\ Step(c, [calls[c] EXCEPT !.pc = "dispatch"])
    /\ UNCHANGED <<confvars, callvars, dispatched>>

\* qq.dispatch(code_desc, kernargs, ...), in call c
ConcDispatch(c) ==
    /\ calls[c].pc = "dispatch"
    /\ \/ /\ dispatched' = dispatched \cup
                 {[by |-> c, code_desc |-> calls[c].code_desc,
                   kernargs |-> kernargs_of(c)]}
          /\ buffers' = [buffers EXCEPT ![kernargs_of(c)].dispatchers =
                                            @ \cup {c}]
          /\ Step(c, [calls[c] EXCEPT !.pc = "free"])
       \/ /\ RaiseIn(c, "HsaDriverError")
          /\ UNCHANGED <<buffers, dispatched>>
    /\ UNCHANGED <<confvars, callvars>>

\* kernarg_region.free(kernargs), in call c
ConcFree(c) ==
    /\ calls[c].pc = "free"
    /\ buffers' = [buffers EXCEPT ![kernargs_of(c)].freed = Append(@, c)]
    /\ Step(c, [calls[c] EXCEPT !.pc = "returned"])
    /\ UNCHANGED <<confvars, callvars, dispatched>>

NextConc ==
    \E c \in Calls :
        \/ ConcCall(c) \/ ConcResolve(c) \/ ConcFinalize(c)
        \/ ConcAllocate(c) \/ ConcMarshal(c) \/ ConcZero(c)
        \/ ConcInsert(c) \/ ConcDispatch(c) \/ ConcFree(c)

SpecConc == InitConc /\ [][NextConc]_vars

\* ------------------------------------------------------------- claims
\* The sequence a caller's size argument stands for.
Supplied(a) == IF a.tag = "scalar" THEN <<a.n>> ELSE a.items
\* s with 1s on the right up to length n.
PadRight(s, n) == [i \in 1..Max(n, Len(s)) |-> IF i <= Len(s) THEN s[i] ELSE 1]
IsPrefix(s, t) == Len(s) <= Len(t) /\ \A i \in 1..Len(s) : s[i] = t[i]
StepOrder ==
    <<"Resolve", "Finalize", "Allocate", "Marshal", "Dispatch", "Release">>
Exited == pc \in {"returned", "raised"}
LastStep == IF steps = <<>> THEN "none" ELSE steps[Len(steps)]
\* All dispatches submitted, with the queue each went to.
Dispatches ==
    UNION {{[queue |-> q, d |-> queues[q][i]] : i \in 1..Len(queues[q])} :
             q \in Queues}

\* C1: when a launch call has exited, by return or by exception, every
\* argument buffer it allocated has been freed.
C1_FreedOnEveryExit == (Exited /\ nalloc > 0) => nfree = nalloc

\* C2: when the dispatch step of a launch has failed, the buffer of the call
\* has been allocated once and freed once.
C2_DispatchFailureFreesOnce ==
    (pc = "raised" /\ LastStep = "Dispatch") => (nalloc = 1 /\ nfree = 1)

\* C3: the steps of a launch call start in the order Resolve, Finalize,
\* Allocate, Marshal, Dispatch, Release, none twice and none skipped; a call
\* that returns has gone through all six.
C3_StepOrder ==
    /\ IsPrefix(steps, StepOrder)
    /\ pc = "returned" => steps = StepOrder

C3_Witness == pc = "returned" /\ steps = StepOrder /\ Len(args) = MaxArgs

\* C4: a configure or bracket call on a kernel leaves the attributes of the
\* kernel it is called on as they were, and returns another object.
C4_ReceiverUnchanged ==
    [][ret = 0 => (heap'[1] = heap[1] /\ ret' # 1)]_vars

C4_Witness ==
    /\ ret # 0
    /\ heap[1] # HSAKernelBase_init
    /\ heap[ret] # heap[1]
    /\ last.op = "getitem"

\* C5: configure with both sizes given and non-empty returns global_size and
\* local_size of length max of the two lengths, each the supplied elements in
\* their order followed by 1s.
C5_PaddedRight ==
    (/\ last.op = "configure"
     /\ last.a1.tag # "none"
     /\ Len(Supplied(last.a0)) > 0
     /\ Len(Supplied(last.a1)) > 0)
    => LET g == Supplied(last.a0)
           l == Supplied(last.a1)
           n == Max(Len(g), Len(l))
           c == heap[ret]
       IN  /\ Len(c.global_size) = n
           /\ ~c.local_size.none
           /\ Len(c.local_size.tup) = n
           /\ \A i \in 1..n :
                /\ c.global_size[i] = IF i <= Len(g) THEN g[i] ELSE 1
                /\ c.local_size.tup[i] = IF i <= Len(l) THEN l[i] ELSE 1

C5_Witness ==
    /\ last.op = "configure"
    /\ last.a0 = List(<<1, 2>>)
    /\ last.a1 = List(<<2>>)
    /\ heap[ret].global_size = <<1, 2>>
    /\ heap[ret].local_size = Tuple(<<2, 1>>)

\* C6: in every kernel object, local_size is None or a tuple as long as
\* global_size.
C6_SameRank ==
    \A o \in DOMAIN heap :
        \/ heap[o].local_size.none
        \/ Len(heap[o].local_size.tup) = Len(heap[o].global_size)

C6_Witness ==
    /\ ret # 0
    /\ ~heap[1].local_size.none
    /\ ~heap[ret].local_size.none
    /\ Len(heap[ret].global_size) = MaxRank
    /\ Len(Supplied(last.a0)) # Len(Supplied(last.a1))

\* C7: k[gridDim, blockDim] with non-empty dimensions returns global_size[i] =
\* gridDim[i] * blockDim[i] over both padded with 1s on the right to the same
\* rank, local_size the padded blockDim, and the third element, if any, as
\* the stream (None without one).
C7_BracketProduct ==
    (/\ last.op = "getitem"
     /\ Len(Supplied(last.a0)) > 0
     /\ Len(Supplied(last.a1)) > 0)
    => LET n == Max(Len(Supplied(last.a0)), Len(Supplied(last.a1)))
           grid == PadRight(Supplied(last.a0), n)
           block == PadRight(Supplied(last.a1), n)
           c == heap[ret]
       IN  /\ c.global_size = [i \in 1..n |-> grid[i] * block[i]]
           /\ c.local_size = Tuple(block)
           /\ c.stream = IF last.rest = <<>> THEN "None" ELSE last.rest[1]

C7_Witness ==
    /\ last.op = "getitem"
    /\ last.a0 = List(<<1, 2>>)
    /\ last.a1 = List(<<2>>)
    /\ last.rest = <<"s1">>
    /\ heap[ret].global_size = <<2, 2>>
    /\ heap[ret].local_size = Tuple(<<2, 1>>)
    /\ heap[ret].stream = "s1"

\* C8: configure returns no configuration when the global size or the local
\* size it is given is an empty sequence.
C8_EmptyRejected ==
    (/\ last.op = "configure"
     /\ \/ (last.a0.tag = "seq" /\ last.a0.items = <<>>)
        \/ (last.a1.tag = "seq" /\ last.a1.items = <<>>))
    => ret = 0

\* C9: every dispatch is in the queue of the kernel's stream, in the default
\* queue only when the stream is None, and carries the kernel's local_size as
\* workgroup size and its global_size as grid size.
C9_StreamSelectsQueue ==
    \A x \in Dispatches :
        /\ x.queue = IF heap[1].stream = "None" THEN "default"
                     ELSE heap[1].stream
        /\ x.d.workgroup_size = heap[1].local_size
        /\ x.d.grid_size = heap[1].global_size

\* C10: the buffer of every dispatch has INJECTED_NARG slots plus one per
\* formal argument, 0 in each injected slot, and in the slot of the i-th
\* formal argument the cell marshaled from the i-th argument value.
C10_BufferLayout ==
    \A x \in Dispatches :
        LET buf == x.d.kernargs
        IN  /\ Len(buf) = INJECTED_NARG + Len(argument_types)
            /\ \A i \in 1..INJECTED_NARG : buf[i] = 0
            /\ \A i \in 1..Len(argument_types) :
                 /\ i <= Len(args)
                 /\ i <= Len(unboxed)
                 /\ buf[INJECTED_NARG + i] = unboxed[i].cval
                 /\ unboxed[i].keepalive.data = args[i].data

\* The slots of the formal arguments in the buffer.
FormalSlots == {INJECTED_NARG + i : i \in 1..Len(argument_types)}
Started(step) == \E i \in 1..Len(steps) : steps[i] = step

\* C11: in a launch that has reached its dispatch, the marshaler has been
\* invoked once for each formal argument and every formal argument's slot has
\* been written, whatever the number of values the caller passed.
C11_EveryFormalMarshaled ==
    Started("Dispatch") =>
        /\ Len(unboxed) = Len(argument_types)
        /\ FormalSlots \subseteq written

\* The i-th argument is marshaled as an array whose rank is not the declared
\* one.
RankMismatch(i) ==
    /\ i <= Min(Len(args), Len(argument_types))
    /\ argument_types[i].kind = "Array"
    /\ args[i].ndim # argument_types[i].ndim

\* C12: once the arguments of a launch are marshaled, a call with an array
\* argument whose rank differs from the rank of its declared type has failed,
\* has written no slot of the buffer and never dispatches.
C12_RankMismatchRejected ==
    (Started("Marshal") /\ \E i \in 1..Len(args) : RankMismatch(i))
    => (pc = "raised" /\ written = {} /\ ~Started("Dispatch"))

\* A type _unbox is meant to marshal: an array or a scalar numeric type.
Supported(ty) == ty.kind = "Array" \/ ty.kind \in ScalarNumericKinds

\* C13: a launch that passes one value for each formal argument, all of
\* array or scalar numeric type, does not fail in marshaling.
C13_ScalarsMarshal ==
    (/\ Started("Marshal")
     /\ Len(args) = Len(argument_types)
     /\ \A i \in 1..Len(argument_types) : Supported(argument_types[i]))
    => ~(pc = "raised" /\ LastStep = "Marshal")

\* C14: once the arguments of a launch are marshaled, a kernel with a formal
\* argument of a type that is neither an array nor a scalar numeric type has
\* failed with NotImplementedError, no cell has been made for that argument,
\* and nothing is dispatched; when it is the first formal argument that is no
\* array, the exception carries its type.
C14_UnsupportedTypeRaises ==
    \A i \in 1..Len(argument_types) :
        (Started("Marshal") /\ ~Supported(argument_types[i])) =>
            /\ pc = "raised"
            /\ exc = "NotImplementedError"
            /\ Len(unboxed) < i
            /\ ~Started("Dispatch")
            /\ Dispatches = {}
            /\ (\A j \in 1..(i - 1) : argument_types[j].kind = "Array")
                  => exc_arg = argument_types[i]

\* The call has failed in bind(): resolving the symbol, finalizing the
\* program, or allocating the argument buffer.
FailedInBind ==
    pc = "raised" /\ LastStep \in {"Resolve", "Finalize", "Allocate"}

\* C15: a call that fails in Resolve, Finalize or Allocate has dispatched
\* nothing and holds no argument buffer; a call that reaches Allocate on an
\* agent without a region supporting kernel arguments fails there; and the
\* region a buffer is allocated from is the first region of the agent that
\* supports kernel arguments.
C15_BindFailureIsClean ==
    /\ FailedInBind =>
          /\ Dispatches = {}
          /\ ~Started("Dispatch")
          /\ nalloc = 0
          /\ kernargs = <<>>
    /\ (Started("Allocate") /\ \A i \in 1..Len(regions) : ~regions[i]) =>
          /\ FailedInBind
          /\ LastStep = "Allocate"
          /\ exc = "IndexError"
    /\ nalloc > 0 =>
          /\ kernarg_region \in 1..Len(regions)
          /\ regions[kernarg_region]
          /\ \A j \in 1..(kernarg_region - 1) : ~regions[j]

C15_Witness ==
    /\ FailedInBind
    /\ LastStep = "Allocate"
    /\ exc = "IndexError"
    /\ Len(regions) > 0

\* The call holds a buffer: bind() has returned and the call has not ended.
InFlight(c) ==
    calls[c].pc \in {"marshal", "zero", "insert", "dispatch", "free"}

\* The buffers call c has allocated.
OwnedBy(c) == {b \in 1..Len(buffers) : buffers[b].owner = c}

\* C16: with concurrent launch calls on one kernel, in every interleaving,
\* each call that got through bind() has made one finalize and one buffer of
\* its own, no buffer is written, dispatched or freed by another call than
\* the one that allocated it, what a call dispatches is its own code
\* descriptor and its own buffer, and no buffer is freed twice.
C16_CallsDoNotShareBuffers ==
    /\ \A c \in DOMAIN calls :
          (InFlight(c) \/ calls[c].pc = "returned") =>
              /\ calls[c].nfinalize = 1
              /\ calls[c].code_desc = c
              /\ OwnedBy(c) = {calls[c].kernargs}
    /\ \A c1, c2 \in DOMAIN calls :
          (c1 # c2 /\ InFlight(c1) /\ InFlight(c2)) =>
              calls[c1].kernargs # calls[c2].kernargs
    /\ \A b \in 1..Len(buffers) :
          /\ buffers[b].writers \subseteq {buffers[b].owner}
          /\ buffers[b].dispatchers \subseteq {buffers[b].owner}
          /\ \A i \in 1..Len(buffers[b].freed) :
                buffers[b].freed[i] = buffers[b].owner
          /\ Len(buffers[b].freed) <= 1
    /\ \A d \in dispatched :
          /\ d.code_desc = d.by
          /\ buffers[d.kernargs].owner = d.by

\* Two calls hold a buffer at the same time, the one that allocated first
\* is still writing while the other has dispatched.
C16_Witness ==
    \E c1, c2 \in DOMAIN calls :
        /\ c1 # c2
        /\ calls[c1].pc = "insert"
        /\ calls[c2].pc = "free"
        /\ calls[c1].kernargs < calls[c2].kernargs
        /\ buffers[calls[c1].kernargs].writers = {c1}
        /\ buffers[calls[c2].kernargs].dispatchers = {c2}

MarshalFailed == pc = "raised" /\ LastStep = "Marshal"

\* C18: a call in which marshaling an argument failed has written no slot of
\* the argument buffer, injected or not; a call that has written a slot has
\* marshaled every argument it was given, without an exception.
C18_NoWriteBeforeMarshaled ==
    /\ MarshalFailed => written = {}
    /\ written # {} =>
          /\ Started("Marshal")
          /\ ~MarshalFailed
          /\ exc_arg = NoType
          /\ Len(unboxed) = Min(Len(args), Len(argument_types))
    /\ (Started("Marshal") /\ ~Started("Dispatch") /\ exc # "None") =>
          written = {}

\* The first argument was marshaled, the second failed, and there is a
\* buffer to write to.
C18_Witness ==
    /\ MarshalFailed
    /\ exc = "NotImplementedError"
    /\ Len(args) = 2
    /\ Len(argument_types) = 2
    /\ argument_types[1].kind = "Array"
    /\ nalloc = 1
    /\ Len(kernargs) = INJECTED_NARG + 2

\* What configure returns on a kernel that was never configured.
OnNewKernel(global_size, local_size, stream_) ==
    configure(<<HSAKernelBase_init>>, 1, global_size, local_size,
              stream_).heap[2]

\* C19: the object configure returns has the global size, local size and
\* stream that the same call returns on a kernel never configured, whatever
\* the receiver's own: its stream is the one passed, None when none is, and
\* its local size is None when none is passed.
C19_ResultFromArgumentsOnly ==
    (ret # 0 /\ last.op = "configure") =>
        /\ heap[ret] = OnNewKernel(last.a0, last.a1, last.rest[1])
        /\ heap[ret].stream = last.rest[1]
        /\ last.a1 = NoneArg => heap[ret].local_size = NoneT

\* A receiver with a stream and a local size is configured without either.
C19_Witness ==
    /\ ret # 0
    /\ last.op = "configure"
    /\ heap[1].stream = "s1"
    /\ heap[1].local_size # NoneT
    /\ last.a1 = NoneArg
    /\ last.rest = <<"None">>
    /\ heap[ret].stream = "None"
    /\ heap[ret].local_size = NoneT
    /\ heap[ret].global_size # heap[1].global_size

====
